---- MODULE Spec2Model ----
(***************************************************************************)
(* Remote command execution and file transfer over an exec stream:         *)
(* Pod.exec_bash, PodFileTransferMixin.copy_file_to_pod /                  *)
(* copy_file_from_pod and their callers in K8sFunctionManager.             *)
(*                                                                         *)
(* The exec channel is the kubernetes client's WSClient: is_open() reads   *)
(* the _connected flag, which only update() and close() change; every      *)
(* peek_* call runs one update(), and one update() receives at most one    *)
(* frame from the socket.  In text mode every received frame is decoded    *)
(* as UTF-8 with errors="replace".                                         *)
(*                                                                         *)
(* The environment: a remote process writes data frames, then its exit     *)
(* status on the error channel, then the close frame; the socket may fail  *)
(* under any call that uses it, which raises in the caller; the target may *)
(* be missing when a channel is opened; the source file may be unreadable. *)
(* The remote tar of a download may fail before its archive is complete;   *)
(* the remote tar of an upload may end before the archive was sent;        *)
(* "mkdir -p" succeeds on a directory that exists.                         *)
(*                                                                         *)
(* Spec runs exec, upload and download one after the other; SpecStream is  *)
(* the upload loop on any buffer; SpecLive is one of the three operations  *)
(* under fair scheduling; SpecDeploy is the dispatcher with deploy and     *)
(* delete against the cluster API.                                         *)
(***************************************************************************)
EXTENDS Integers, Sequences, FiniteSets, TLC

VARIABLES
    pc,          \* position of the running CLI operation
    op,          \* the K8sFunctionManager operation being run
    result,      \* how the operation ended: "returned" or the exception raised
    excValue,    \* the value carried by the exception raised (CustomException.value)
    caught,      \* the exception swallowed by copy_file_to_pod's except clause
    podExists,   \* whether the execution target exists in the cluster
    chans,       \* the exec channels opened by this operation, in opening order
    remote,      \* the remote process served by the newest channel
    remoteFile,  \* the file at the remote path
    srcFile,     \* the local source file of an upload
    outFile,     \* the local file a download extracted
    stderrList,  \* exec_bash: the list `stderr`
    tarBuf,      \* the temporary file tar_buffer
    tarPos,      \* read position in tar_buffer
    progress,    \* total_bytes_written / total_bytes_read
    remoteDir,   \* whether the destination directory exists in the target
    localDir,    \* whether the local destination directory exists
    dirExisted,  \* whether this operation's destination directory existed when it began
    docs,        \* the documents of the definitions file
    docIdx,      \* the document the generator convert_yaml_to_kube_objects is at
    cluster,     \* the resources present in the cluster
    clusterBefore, \* the resources present when the running operation was dispatched
    lastStatus,  \* the HTTP status of the API call made for that document (0: none yet)
    printed,     \* exec_bash: the fragments printed to the user, one per print call
    reported     \* the completion report a transfer printed after its loop

\* the directories of the two file systems
fsVars == <<remoteDir, localDir, dirExisted>>

\* the definitions file and the cluster's resources
deployVars == <<docs, docIdx, cluster, clusterBefore, lastStatus>>

vars == <<pc, op, result, excValue, caught, podExists, chans, remote, remoteFile,
          srcFile, outFile, stderrList, tarBuf, tarPos, progress, fsVars, deployVars,
          printed, reported>>

----------------------------------------------------------------------------
(* Bounds of the model *)

\* most frames a remote shell command writes before it exits
MaxFrames == 2
\* most bytes in the content of a transferred file
MaxFileLen == 2
\* most bytes the remote tar puts in one websocket frame
MaxFrameLen == 2

\* bytes a shell command writes to stdout / stderr ('a', 'b')
ExecBytes == {97, 98}
\* bytes of file contents: 'A' and 0xFF (no valid UTF-8 sequence holds 0xFF)
FileBytes == {65, 255}
\* exit statuses of a remote command
ExitStatuses == {0, 1}
\* the single-byte stand-in for the base name of the transferred file ('f')
FileName == <<102>>

\* tar_buffer.read(1024), scaled so that an archive spans several chunks
ChunkSize == 2

SeqsUpTo(S, n) == UNION {[1..k -> S] : k \in 0..n}

Contents == SeqsUpTo(FileBytes, MaxFileLen)

NoFile == [ok |-> FALSE, data |-> <<>>]
File(c) == [ok |-> TRUE, data |-> c]

----------------------------------------------------------------------------
(* Text conversions *)

IsCont(b) == b >= 128 /\ b <= 191

\* bytes.decode("utf-8", "replace") for sequences of one- and two-byte forms:
\* every byte that starts no valid sequence becomes U+FFFD
RECURSIVE Utf8Decode(_)
Utf8Decode(bs) ==
    IF bs = <<>> THEN <<>>
    ELSE LET b == Head(bs) IN
         IF b < 128 THEN <<b>> \o Utf8Decode(Tail(bs))
         ELSE IF b >= 194 /\ b <= 223 /\ Len(bs) >= 2 /\ IsCont(bs[2])
              THEN <<(b - 192) * 64 + (bs[2] - 128)>> \o Utf8Decode(Tail(Tail(bs)))
              ELSE <<65533>> \o Utf8Decode(Tail(bs))

\* str.encode(): UTF-8 of code points below 65536
RECURSIVE Utf8Encode(_)
Utf8Encode(cs) ==
    IF cs = <<>> THEN <<>>
    ELSE LET c == Head(cs) IN
         (IF c < 128 THEN <<c>>
          ELSE IF c < 2048 THEN <<192 + (c \div 64), 128 + (c % 64)>>
          ELSE <<224 + (c \div 4096), 128 + ((c \div 64) % 64), 128 + (c % 64)>>)
         \o Utf8Encode(Tail(cs))

\* ', '.join(stderr)
RECURSIVE JoinComma(_)
JoinComma(l) ==
    IF l = <<>> THEN <<>>
    ELSE IF Len(l) = 1 THEN Head(l)
    ELSE Head(l) \o <<44, 32>> \o JoinComma(Tail(l))

----------------------------------------------------------------------------
(* Archive codec: a one-entry archive is a header (name byte, size digit), *)
(* the content, and an end-of-archive block.                               *)

\* tarfile.open(mode='w'); tar.add(path, arcname=basename); seek(0)
TarCreate(name, content) == name \o <<48 + Len(content)>> \o content \o <<0>>

\* tarfile.open(mode='r') accepts the buffer: a whole header and the bytes it announces
TarValid(bs) ==
    /\ Len(bs) >= 2
    /\ <<bs[1]>> = FileName
    /\ bs[2] >= 48 /\ bs[2] <= 57
    /\ Len(bs) >= 2 + (bs[2] - 48)

\* tar.extractall(): the content of the entry
TarContent(bs) == SubSeq(bs, 3, 2 + (bs[2] - 48))

----------------------------------------------------------------------------
(* The exec channel (WSClient) *)

EmptyBuf == [stdout |-> <<>>, stderr |-> <<>>, error |-> <<>>]

NewChannel(cmd) ==
    [cmd |-> cmd, connected |-> TRUE, closeCalls |-> 0, inQ |-> <<>>,
     buf |-> EmptyBuf, stdin |-> <<>>]

CloseFrame == [ch |-> "close", data |-> <<>>]
DataFrame(ch, bs) == [ch |-> ch, data |-> bs]

\* WSClient.update: receive at most one frame
Update(c) ==
    IF ~c.connected \/ c.inQ = <<>> THEN c
    ELSE LET f == Head(c.inQ) IN
         IF f.ch = "close"
         THEN [c EXCEPT !.connected = FALSE, !.inQ = Tail(@)]
         ELSE [c EXCEPT !.inQ = Tail(@),
                        !.buf[f.ch] = @ \o Utf8Decode(f.data)]

\* WSClient.peek_channel: update(timeout=0), then the buffered text
PeekChannel(c) == Update(c)

\* WSClient.read_channel: the buffered text, removed (an update first when none is buffered)
ReadData(c, ch) == (IF c.buf[ch] = <<>> THEN Update(c) ELSE c).buf[ch]
ReadChan(c, ch) ==
    [(IF c.buf[ch] = <<>> THEN Update(c) ELSE c) EXCEPT !.buf[ch] = <<>>]

\* WSClient.close
Close(c) == [c EXCEPT !.connected = FALSE, !.closeCalls = @ + 1]

\* WSClient.returncode after close: the exit status the error channel reported
ReturnCode(c) == ReadData(c, "error")[1]

Cur == chans[Len(chans)]
SetCur(c) == [chans EXCEPT ![Len(chans)] = c]

\* the remote process: the data frames it has written so far, in order, the
\* archive bytes it has still to write, and its exit status once it has exited
IdleRemote == [phase |-> "idle", frames |-> <<>>, status |-> 0, todo |-> <<>>]

\* what the remote process wrote to one flow: the bytes, and the text the
\* client's decoding of each frame makes of them
RECURSIVE Wrote(_, _)
Wrote(fs, ch) ==
    IF fs = <<>> THEN <<>>
    ELSE (IF Head(fs).ch = ch THEN Head(fs).data ELSE <<>>) \o Wrote(Tail(fs), ch)

RECURSIVE WroteText(_, _)
WroteText(fs, ch) ==
    IF fs = <<>> THEN <<>>
    ELSE (IF Head(fs).ch = ch THEN Utf8Decode(Head(fs).data) ELSE <<>>)
         \o WroteText(Tail(fs), ch)

----------------------------------------------------------------------------
(* The state after the CLI process starts *)

Init ==
    /\ pc = "idle"
    /\ op = "none"
    /\ result = "none"
    /\ excValue = <<>>
    /\ caught = "none"
    /\ podExists \in BOOLEAN
    /\ chans = <<>>
    /\ remote = IdleRemote
    /\ remoteFile = NoFile
    /\ srcFile \in {File(c) : c \in Contents} \cup {NoFile}
    /\ outFile = NoFile
    /\ stderrList = <<>>
    /\ tarBuf = <<>>
    /\ tarPos = 0
    /\ progress = 0
    /\ remoteDir \in BOOLEAN
    /\ localDir \in BOOLEAN
    /\ dirExisted = FALSE
    /\ docs = <<>>
    /\ docIdx = 0
    /\ cluster = {}
    /\ clusterBefore = {}
    /\ lastStatus = 0
    /\ printed = <<>>
    /\ reported = "none"

\* the first position of each K8sFunctionManager operation
Entry(o) ==
    CASE o = "exec" -> "ex_open"
      [] o = "upload" -> "ex_open"
      [] o = "download" -> "dl_mkdir"
      [] o \in {"deploy", "delete"} -> "dp_load"

\* the destination directory of operation o, as the operation finds it
DestinationExists(o) ==
    CASE o = "upload" -> remoteDir
      [] o = "download" -> localDir
      [] OTHER -> FALSE

\* kube.py / K8sManager: one operation per CLI invocation
Start ==
    /\ pc = "idle"
    /\ \E o \in {"exec", "upload", "download"} :
          /\ op' = o
          /\ pc' = Entry(o)
          /\ dirExisted' = DestinationExists(o)
    /\ outFile' = NoFile
    /\ UNCHANGED <<result, excValue, caught, podExists, chans, remote, remoteFile,
                   srcFile, stderrList, tarBuf, tarPos, progress, remoteDir, localDir>>
    /\ UNCHANGED deployVars
    /\ UNCHANGED printed
    /\ UNCHANGED reported

\* the operation returned or raised: the process ends, the cluster stays
Exit ==
    /\ pc = "done"
    /\ pc' = "idle"
    /\ op' = "none"
    /\ result' = "none"
    /\ excValue' = <<>>
    /\ caught' = "none"
    /\ chans' = <<>>
    /\ remote' = IdleRemote
    /\ stderrList' = <<>>
    /\ tarBuf' = <<>>
    /\ tarPos' = 0
    /\ progress' = 0
    /\ dirExisted' = FALSE
    /\ docIdx' = 0
    /\ lastStatus' = 0
    /\ printed' = <<>>
    /\ reported' = "none"
    /\ clusterBefore' = cluster
    /\ UNCHANGED <<podExists, remoteFile, srcFile, outFile, remoteDir, localDir,
                   docs, cluster>>

Raise(exc, value) ==
    /\ pc' = "done"
    /\ result' = exc
    /\ excValue' = value

Return ==
    /\ pc' = "done"
    /\ result' = "returned"
    /\ excValue' = <<>>

----------------------------------------------------------------------------
(* Pod.exec_bash; K8sFunctionManager.copy_file_to_pod runs it first for     *)
(* "mkdir -p" through Pod.create_directory                                  *)

ShellCmd == IF op = "upload" THEN "mkdir" ELSE "sh"

\* try: get_namespaced_pod_exec_stream(...) except ApiException: raise KubernetesResourceWasNotFound
ExecOpen ==
    /\ pc = "ex_open"
    /\ IF podExists
       THEN /\ chans' = Append(chans, NewChannel(ShellCmd))
            /\ remote' = [IdleRemote EXCEPT !.phase = "running"]
            /\ pc' = "ex_loop"
            /\ UNCHANGED <<result, excValue>>
       ELSE /\ Raise("KubernetesResourceWasNotFound", <<>>)
            /\ UNCHANGED <<chans, remote>>
    /\ stderrList' = <<>>
    /\ UNCHANGED <<op, caught, podExists, remoteFile, srcFile, outFile,
                   tarBuf, tarPos, progress>>
    /\ UNCHANGED fsVars
    /\ UNCHANGED deployVars
    /\ UNCHANGED printed
    /\ UNCHANGED reported

\* a loop that does not test the channel: while True
ExecIsOpenForever ==
    /\ pc = "ex_loop"
    /\ pc' = "ex_out"
    /\ UNCHANGED <<op, result, excValue, caught, podExists, chans, remote, remoteFile,
                   srcFile, outFile, stderrList, tarBuf, tarPos, progress>>
    /\ UNCHANGED fsVars
    /\ UNCHANGED deployVars
    /\ UNCHANGED printed
    /\ UNCHANGED reported

\* while api_response.is_open():
ExecIsOpen ==
    /\ pc = "ex_loop"
    /\ pc' = IF Cur.connected THEN "ex_out" ELSE "ex_close"
    /\ UNCHANGED <<op, result, excValue, caught, podExists, chans, remote, remoteFile,
                   srcFile, outFile, stderrList, tarBuf, tarPos, progress>>
    /\ UNCHANGED fsVars
    /\ UNCHANGED deployVars
    /\ UNCHANGED printed
    /\ UNCHANGED reported

\* if api_response.peek_stdout(): print(api_response.read_stdout())
ExecPeekStdout ==
    /\ pc = "ex_out"
    /\ LET c == PeekChannel(Cur) IN
          IF c.buf["stdout"] # <<>>
          THEN /\ chans' = SetCur(ReadChan(c, "stdout"))
               /\ printed' = Append(printed, ReadData(c, "stdout"))
          ELSE /\ chans' = SetCur(c)
               /\ UNCHANGED printed
    /\ UNCHANGED reported
    /\ pc' = "ex_err"
    /\ UNCHANGED <<op, result, excValue, caught, podExists, remote, remoteFile,
                   srcFile, outFile, stderrList, tarBuf, tarPos, progress>>
    /\ UNCHANGED fsVars
    /\ UNCHANGED deployVars

\* a stderr step that also prints the fragment it read
ExecPeekStderrForwarding ==
    /\ pc = "ex_err"
    /\ LET c == PeekChannel(Cur) IN
          IF c.buf["stderr"] # <<>>
          THEN /\ chans' = SetCur(ReadChan(c, "stderr"))
               /\ stderrList' = Append(stderrList, ReadData(c, "stderr"))
               /\ printed' = Append(printed, ReadData(c, "stderr"))
          ELSE /\ chans' = SetCur(c)
               /\ UNCHANGED <<stderrList, printed>>
    /\ pc' = "ex_loop"
    /\ UNCHANGED <<op, result, excValue, caught, podExists, remote, remoteFile,
                   srcFile, outFile, tarBuf, tarPos, progress>>
    /\ UNCHANGED fsVars
    /\ UNCHANGED deployVars
    /\ UNCHANGED reported


\* if api_response.peek_stderr(): stderr.append(api_response.read_stderr())
ExecPeekStderr ==
    /\ pc = "ex_err"
    /\ LET c == PeekChannel(Cur) IN
          IF c.buf["stderr"] # <<>>
          THEN /\ chans' = SetCur(ReadChan(c, "stderr"))
               /\ stderrList' = Append(stderrList, ReadData(c, "stderr"))
          ELSE /\ chans' = SetCur(c)
               /\ UNCHANGED stderrList
    /\ pc' = "ex_loop"
    /\ UNCHANGED <<op, result, excValue, caught, podExists, remote, remoteFile,
                   srcFile, outFile, tarBuf, tarPos, progress>>
    /\ UNCHANGED fsVars
    /\ UNCHANGED deployVars
    /\ UNCHANGED printed
    /\ UNCHANGED reported

\* the socket fails under a peek: the exception leaves exec_bash (no try/finally)
ExecPollFault ==
    /\ pc \in {"ex_out", "ex_err"}
    /\ Cur.connected
    /\ Raise("WebSocketException", <<>>)
    /\ UNCHANGED <<op, caught, podExists, chans, remote, remoteFile,
                   srcFile, outFile, stderrList, tarBuf, tarPos, progress>>
    /\ UNCHANGED fsVars
    /\ UNCHANGED deployVars
    /\ UNCHANGED printed
    /\ UNCHANGED reported

\* exec_bash going on to the return code without api_response.close()
ExecCloseSkipped ==
    /\ pc = "ex_close"
    /\ pc' = "ex_rc"
    /\ UNCHANGED <<op, result, excValue, caught, podExists, chans, remote, remoteFile,
                   srcFile, outFile, stderrList, tarBuf, tarPos, progress>>
    /\ UNCHANGED fsVars
    /\ UNCHANGED deployVars
    /\ UNCHANGED printed
    /\ UNCHANGED reported

\* api_response.close()
ExecClose ==
    /\ pc = "ex_close"
    /\ chans' = SetCur(Close(Cur))
    /\ pc' = "ex_rc"
    /\ UNCHANGED <<op, result, excValue, caught, podExists, remote, remoteFile,
                   srcFile, outFile, stderrList, tarBuf, tarPos, progress>>
    /\ UNCHANGED fsVars
    /\ UNCHANGED deployVars
    /\ UNCHANGED printed
    /\ UNCHANGED reported

\* a changed exit-status test: status 1 passes for success
CommandFailedAboveOne(c) == ReturnCode(c) > 1

\* api_response.returncode != 0
CommandFailed(c) == ReturnCode(c) # 0

\* the value of FailedToExecuteCommand
StderrText(l) == JoinComma(l)

\* if api_response.returncode != 0: raise FailedToExecuteCommand(..., ', '.join(stderr))
\* a normal return goes back to the caller: copy_file_to_pod goes on to the transfer
ExecReturnCode ==
    /\ pc = "ex_rc"
    /\ chans' = SetCur(ReadChan(Cur, "error"))
    /\ IF CommandFailed(Cur)
       THEN Raise("FailedToExecuteCommand", StderrText(stderrList))
       ELSE IF op = "upload"
            THEN /\ pc' = "up_open"
                 /\ UNCHANGED <<result, excValue>>
            ELSE Return
    /\ UNCHANGED <<op, caught, podExists, remote, remoteFile,
                   srcFile, outFile, stderrList, tarBuf, tarPos, progress>>
    /\ UNCHANGED fsVars
    /\ UNCHANGED deployVars
    /\ UNCHANGED printed
    /\ UNCHANGED reported

----------------------------------------------------------------------------
(* The remote side of a shell command *)

ShellRunning ==
    /\ chans # <<>>
    /\ Cur.cmd \in {"sh", "mkdir"}
    /\ Cur.connected
    /\ remote.phase = "running"

\* the streams the process writes to: mkdir has messages for stderr only
ShellStreams(cmd) == IF cmd = "mkdir" THEN {"stderr"} ELSE {"stdout", "stderr"}

\* the process writes to stdout or stderr: one frame
RemoteWrite ==
    /\ ShellRunning
    /\ Len(remote.frames) < MaxFrames
    /\ \E ch \in ShellStreams(Cur.cmd), b \in ExecBytes :
          /\ chans' = SetCur([Cur EXCEPT !.inQ = Append(@, DataFrame(ch, <<b>>))])
          /\ remote' = [remote EXCEPT !.frames = Append(@, DataFrame(ch, <<b>>))]
    /\ UNCHANGED <<pc, op, result, excValue, caught, podExists, remoteFile,
                   srcFile, outFile, stderrList, tarBuf, tarPos, progress>>
    /\ UNCHANGED fsVars
    /\ UNCHANGED deployVars
    /\ UNCHANGED printed
    /\ UNCHANGED reported

\* the exit statuses the process can end with: "mkdir -p" succeeds on a
\* directory that exists
PossibleStatuses(cmd) ==
    IF cmd = "mkdir" /\ remoteDir THEN {0} ELSE ExitStatuses

\* the process exits: the status on the error channel, then the close frame;
\* a successful "mkdir -p" leaves the directory in place
RemoteExit ==
    /\ ShellRunning
    /\ \E s \in PossibleStatuses(Cur.cmd) :
          /\ chans' = SetCur([Cur EXCEPT
                                !.inQ = @ \o <<DataFrame("error", <<s>>), CloseFrame>>])
          /\ remote' = [remote EXCEPT !.phase = "exited", !.status = s]
          /\ remoteDir' = IF Cur.cmd = "mkdir" /\ s = 0 THEN TRUE ELSE remoteDir
    /\ UNCHANGED <<pc, op, result, excValue, caught, podExists, remoteFile,
                   srcFile, outFile, stderrList, tarBuf, tarPos, progress,
                   localDir, dirExisted>>
    /\ UNCHANGED deployVars
    /\ UNCHANGED printed
    /\ UNCHANGED reported

----------------------------------------------------------------------------
(* PodFileTransferMixin.copy_file_to_pod *)

Min(a, b) == IF a < b THEN a ELSE b

\* resp = self.get_namespaced_pod_exec_stream(['tar', 'xvf', '-', '-C', destination_path])
\* (outside the try: an ApiException leaves copy_file_to_pod as it is)
UploadOpen ==
    /\ pc = "up_open"
    /\ IF podExists
       THEN /\ chans' = Append(chans, NewChannel("tar_x"))
            /\ remote' = [IdleRemote EXCEPT !.phase = "running"]
            /\ pc' = "up_tar"
            /\ UNCHANGED <<result, excValue>>
       ELSE /\ Raise("ApiException", <<>>)
            /\ UNCHANGED <<chans, remote>>
    /\ UNCHANGED <<op, caught, podExists, remoteFile, srcFile, outFile,
                   stderrList, tarBuf, tarPos, progress>>
    /\ UNCHANGED fsVars
    /\ UNCHANGED deployVars
    /\ UNCHANGED printed
    /\ UNCHANGED reported

\* except Exception as e: print(...)  -- copy_file_to_pod then returns normally
Swallow(exc) ==
    /\ caught' = exc
    /\ Return

\* self._create_tar_buffer(tar_buffer, source_file_path)
CreateTarBuffer ==
    /\ pc = "up_tar"
    /\ IF srcFile.ok
       THEN /\ tarBuf' = TarCreate(FileName, srcFile.data)
            /\ pc' = "up_loop"
            /\ UNCHANGED <<result, excValue, caught>>
       ELSE /\ Swallow("OSError")
            /\ UNCHANGED tarBuf
    /\ tarPos' = 0
    /\ progress' = 0
    /\ UNCHANGED <<op, podExists, chans, remote, remoteFile, srcFile, outFile, stderrList>>
    /\ UNCHANGED fsVars
    /\ UNCHANGED deployVars
    /\ UNCHANGED printed
    /\ UNCHANGED reported

\* chunk = tar_buffer.read(1024)
NextChunk == SubSeq(tarBuf, tarPos + 1, Min(tarPos + ChunkSize, Len(tarBuf)))

\* a changed upload loop: `if` for `while`, so the channel is closed after one chunk
StreamToPodStepOnce ==
    /\ pc = "up_loop"
    /\ IF Cur.connected /\ NextChunk # <<>>
       THEN /\ chans' = SetCur([Cur EXCEPT !.stdin = @ \o NextChunk])
            /\ tarPos' = tarPos + Len(NextChunk)
            /\ progress' = progress + Len(NextChunk)
       ELSE UNCHANGED <<chans, tarPos, progress>>
    /\ pc' = "up_close"
    /\ UNCHANGED <<op, result, excValue, caught, podExists, remote, remoteFile,
                   srcFile, outFile, stderrList, tarBuf>>
    /\ UNCHANGED fsVars
    /\ UNCHANGED deployVars
    /\ UNCHANGED printed
    /\ UNCHANGED reported

\* while resp.is_open(): chunk = read; if chunk: resp.write_stdin(chunk); total += len(chunk)
\*                        else: break
StreamToPodStep ==
    /\ pc = "up_loop"
    /\ IF Cur.connected /\ NextChunk # <<>>
       THEN /\ chans' = SetCur([Cur EXCEPT !.stdin = @ \o NextChunk])
            /\ tarPos' = tarPos + Len(NextChunk)
            /\ progress' = progress + Len(NextChunk)
            /\ pc' = "up_loop"
       ELSE /\ pc' = "up_close"
            /\ UNCHANGED <<chans, tarPos, progress>>
    /\ UNCHANGED <<op, result, excValue, caught, podExists, remote, remoteFile,
                   srcFile, outFile, stderrList, tarBuf>>
    /\ UNCHANGED fsVars
    /\ UNCHANGED deployVars
    /\ UNCHANGED printed
    /\ UNCHANGED reported

\* a write fault handled inside the loop by leaving it: close and report follow
StreamToPodWriteFaultBreaks ==
    /\ pc = "up_loop"
    /\ Cur.connected
    /\ NextChunk # <<>>
    /\ caught' = "WebSocketException"
    /\ pc' = "up_close"
    /\ UNCHANGED <<op, result, excValue, podExists, chans, remote, remoteFile, srcFile,
                   outFile, stderrList, tarBuf, tarPos, progress>>
    /\ UNCHANGED fsVars
    /\ UNCHANGED deployVars
    /\ UNCHANGED printed
    /\ UNCHANGED reported

\* resp.write_stdin raises: the except clause of copy_file_to_pod prints it
StreamToPodWriteFault ==
    /\ pc = "up_loop"
    /\ Cur.connected
    /\ NextChunk # <<>>
    /\ Swallow("WebSocketException")
    /\ UNCHANGED <<op, podExists, chans, remote, remoteFile, srcFile, outFile,
                   stderrList, tarBuf, tarPos, progress>>
    /\ UNCHANGED fsVars
    /\ UNCHANGED deployVars
    /\ UNCHANGED printed
    /\ UNCHANGED reported

\* resp.close(); print("Upload complete."); a remote tar that still runs reads
\* its stdin to the end and extracts what it was sent
StreamToPodClose ==
    /\ pc = "up_close"
    /\ chans' = SetCur(Close(Cur))
    /\ remote' = [remote EXCEPT !.phase = "exited"]
    /\ remoteFile' = IF remote.phase = "running" /\ TarValid(Cur.stdin)
                     THEN File(TarContent(Cur.stdin))
                     ELSE remoteFile
    /\ reported' = "Upload complete."
    /\ Return
    /\ UNCHANGED <<op, caught, podExists, srcFile, outFile,
                   stderrList, tarBuf, tarPos, progress>>
    /\ UNCHANGED fsVars
    /\ UNCHANGED deployVars
    /\ UNCHANGED printed

----------------------------------------------------------------------------
(* K8sFunctionManager.copy_file_from_pod, PodFileTransferMixin.copy_file_from_pod *)

\* Helpers.create_directory without exist_ok: a directory that exists is an OSError
CreateLocalDirectoryNoExistOk ==
    /\ pc = "dl_mkdir"
    /\ \E ok \in (IF localDir THEN {FALSE} ELSE BOOLEAN) :
          IF ok
          THEN /\ pc' = "dl_open"
               /\ localDir' = TRUE
               /\ UNCHANGED <<result, excValue>>
          ELSE /\ Raise("FailedToCreateLocalDir", <<>>)
               /\ UNCHANGED localDir
    /\ UNCHANGED <<op, caught, podExists, chans, remote, remoteFile, srcFile, outFile,
                   stderrList, tarBuf, tarPos, progress, remoteDir, dirExisted>>
    /\ UNCHANGED deployVars
    /\ UNCHANGED printed
    /\ UNCHANGED reported

\* Helpers.create_directory that goes on to the transfer whatever os.makedirs did
CreateLocalDirectoryUnchecked ==
    /\ pc = "dl_mkdir"
    /\ \E ok \in (IF localDir THEN {TRUE} ELSE BOOLEAN) :
          /\ pc' = "dl_open"
          /\ localDir' = (localDir \/ ok)
          /\ UNCHANGED <<result, excValue>>
    /\ UNCHANGED <<op, caught, podExists, chans, remote, remoteFile, srcFile, outFile,
                   stderrList, tarBuf, tarPos, progress, remoteDir, dirExisted>>
    /\ UNCHANGED deployVars
    /\ UNCHANGED printed
    /\ UNCHANGED reported

\* Helpers.create_directory: os.makedirs(directory, exist_ok=True), OSError -> FailedToCreateLocalDir;
\* os.makedirs either creates the directory or fails, and with exist_ok a
\* directory that exists is left as it is
CreateLocalDirectory ==
    /\ pc = "dl_mkdir"
    /\ \E ok \in (IF localDir THEN {TRUE} ELSE BOOLEAN) :
          IF ok
          THEN /\ pc' = "dl_open"
               /\ localDir' = TRUE
               /\ UNCHANGED <<result, excValue>>
          ELSE /\ Raise("FailedToCreateLocalDir", <<>>)
               /\ UNCHANGED localDir
    /\ UNCHANGED <<op, caught, podExists, chans, remote, remoteFile, srcFile, outFile,
                   stderrList, tarBuf, tarPos, progress, remoteDir, dirExisted>>
    /\ UNCHANGED deployVars
    /\ UNCHANGED printed
    /\ UNCHANGED reported

\* resp = self.get_namespaced_pod_exec_stream(['tar', 'cmf', '-', '-C', base_dir, file_name])
DownloadOpen ==
    /\ pc = "dl_open"
    /\ IF podExists
       THEN /\ chans' = Append(chans, NewChannel("tar_c"))
            /\ remote' = [IdleRemote EXCEPT
                            !.phase = "running",
                            !.todo = IF remoteFile.ok
                                     THEN TarCreate(FileName, remoteFile.data)
                                     ELSE <<>>]
            /\ pc' = "dl_loop"
            /\ UNCHANGED <<result, excValue>>
       ELSE /\ Raise("ApiException", <<>>)
            /\ UNCHANGED <<chans, remote>>
    /\ tarBuf' = <<>>
    /\ tarPos' = 0
    /\ progress' = 0
    /\ UNCHANGED <<op, caught, podExists, remoteFile, srcFile, outFile, stderrList>>
    /\ UNCHANGED fsVars
    /\ UNCHANGED deployVars
    /\ UNCHANGED printed
    /\ UNCHANGED reported

\* while resp.is_open():
StreamFromPodIsOpen ==
    /\ pc = "dl_loop"
    /\ pc' = IF Cur.connected THEN "dl_update" ELSE "dl_close"
    /\ UNCHANGED <<op, result, excValue, caught, podExists, chans, remote, remoteFile,
                   srcFile, outFile, stderrList, tarBuf, tarPos, progress>>
    /\ UNCHANGED fsVars
    /\ UNCHANGED deployVars
    /\ UNCHANGED printed
    /\ UNCHANGED reported

\* resp.update(timeout=1)
StreamFromPodUpdate ==
    /\ pc = "dl_update"
    /\ chans' = SetCur(Update(Cur))
    /\ pc' = "dl_out"
    /\ UNCHANGED <<op, result, excValue, caught, podExists, remote, remoteFile,
                   srcFile, outFile, stderrList, tarBuf, tarPos, progress>>
    /\ UNCHANGED fsVars
    /\ UNCHANGED deployVars
    /\ UNCHANGED printed
    /\ UNCHANGED reported

\* a changed drain step: stdout is read only while the channel is still open
StreamFromPodStdoutWhileOpen ==
    /\ pc = "dl_out"
    /\ LET c == PeekChannel(Cur) IN
          IF c.connected /\ c.buf["stdout"] # <<>>
          THEN /\ chans' = SetCur(ReadChan(c, "stdout"))
               /\ progress' = progress + Len(ReadData(c, "stdout"))
               /\ tarBuf' = tarBuf \o Utf8Encode(ReadData(c, "stdout"))
          ELSE /\ chans' = SetCur(c)
               /\ UNCHANGED <<progress, tarBuf>>
    /\ pc' = "dl_err"
    /\ UNCHANGED <<op, result, excValue, caught, podExists, remote, remoteFile,
                   srcFile, outFile, stderrList, tarPos>>
    /\ UNCHANGED fsVars
    /\ UNCHANGED deployVars
    /\ UNCHANGED printed
    /\ UNCHANGED reported

\* if resp.peek_stdout(): stdout = resp.read_stdout(); total_bytes_read += len(stdout)
\*                        tar_buffer.write(stdout.encode())
StreamFromPodStdout ==
    /\ pc = "dl_out"
    /\ LET c == PeekChannel(Cur) IN
          IF c.buf["stdout"] # <<>>
          THEN /\ chans' = SetCur(ReadChan(c, "stdout"))
               /\ progress' = progress + Len(ReadData(c, "stdout"))
               /\ tarBuf' = tarBuf \o Utf8Encode(ReadData(c, "stdout"))
          ELSE /\ chans' = SetCur(c)
               /\ UNCHANGED <<progress, tarBuf>>
    /\ pc' = "dl_err"
    /\ UNCHANGED <<op, result, excValue, caught, podExists, remote, remoteFile,
                   srcFile, outFile, stderrList, tarPos>>
    /\ UNCHANGED fsVars
    /\ UNCHANGED deployVars
    /\ UNCHANGED printed
    /\ UNCHANGED reported

\* if resp.peek_stderr(): print("Error:", resp.read_stderr(), file=sys.stderr)
StreamFromPodStderr ==
    /\ pc = "dl_err"
    /\ LET c == PeekChannel(Cur) IN
          chans' = SetCur(IF c.buf["stderr"] # <<>> THEN ReadChan(c, "stderr") ELSE c)
    /\ pc' = "dl_loop"
    /\ UNCHANGED <<op, result, excValue, caught, podExists, remote, remoteFile,
                   srcFile, outFile, stderrList, tarBuf, tarPos, progress>>
    /\ UNCHANGED fsVars
    /\ UNCHANGED deployVars
    /\ UNCHANGED printed
    /\ UNCHANGED reported

\* the socket fails under update or a peek: the exception leaves copy_file_from_pod
StreamFromPodFault ==
    /\ pc \in {"dl_update", "dl_out", "dl_err"}
    /\ Cur.connected
    /\ Raise("WebSocketException", <<>>)
    /\ UNCHANGED <<op, caught, podExists, chans, remote, remoteFile, srcFile, outFile,
                   stderrList, tarBuf, tarPos, progress>>
    /\ UNCHANGED fsVars
    /\ UNCHANGED deployVars
    /\ UNCHANGED printed
    /\ UNCHANGED reported

\* resp.close(); print("Download complete.")
StreamFromPodClose ==
    /\ pc = "dl_close"
    /\ chans' = SetCur(Close(Cur))
    /\ pc' = "dl_extract"
    /\ UNCHANGED <<op, result, excValue, caught, podExists, remote, remoteFile,
                   srcFile, outFile, stderrList, tarBuf, tarPos, progress>>
    /\ UNCHANGED fsVars
    /\ UNCHANGED deployVars
    /\ UNCHANGED printed
    /\ reported' = "Download complete."

\* a changed extraction: a failed extraction closes the channel again
ExtractTarClosingOnFailure ==
    /\ pc = "dl_extract"
    /\ IF TarValid(tarBuf)
       THEN /\ outFile' = File(TarContent(tarBuf))
            /\ Return
            /\ UNCHANGED chans
       ELSE /\ Raise("ReadError", <<>>)
            /\ chans' = SetCur(Close(Cur))
            /\ UNCHANGED outFile
    /\ UNCHANGED <<op, caught, podExists, remote, remoteFile, srcFile,
                   stderrList, tarBuf, tarPos, progress>>
    /\ UNCHANGED fsVars
    /\ UNCHANGED deployVars
    /\ UNCHANGED printed
    /\ UNCHANGED reported

\* _extract_tar_to_destination inside a try / except that prints, as the upload has
ExtractTarIgnoringErrors ==
    /\ pc = "dl_extract"
    /\ IF TarValid(tarBuf)
       THEN outFile' = File(TarContent(tarBuf))
       ELSE UNCHANGED outFile
    /\ Return
    /\ UNCHANGED <<op, caught, podExists, chans, remote, remoteFile, srcFile,
                   stderrList, tarBuf, tarPos, progress>>
    /\ UNCHANGED fsVars
    /\ UNCHANGED deployVars
    /\ UNCHANGED printed
    /\ UNCHANGED reported

\* tar_buffer.seek(0); tarfile.open(fileobj=tar_buffer, mode='r'); tar.extractall(destination_path)
ExtractTarToDestination ==
    /\ pc = "dl_extract"
    /\ IF TarValid(tarBuf)
       THEN /\ outFile' = File(TarContent(tarBuf))
            /\ Return
       ELSE /\ Raise("ReadError", <<>>)
            /\ UNCHANGED outFile
    /\ UNCHANGED <<op, caught, podExists, chans, remote, remoteFile, srcFile,
                   stderrList, tarBuf, tarPos, progress>>
    /\ UNCHANGED fsVars
    /\ UNCHANGED deployVars
    /\ UNCHANGED printed
    /\ UNCHANGED reported

----------------------------------------------------------------------------
(* The remote tar of a download, and the cluster *)

TarRunning ==
    /\ chans # <<>>
    /\ Cur.cmd = "tar_c"
    /\ Cur.connected
    /\ remote.phase = "running"

\* tar writes the next bytes of the archive to stdout: one frame
RemoteTarWrite ==
    /\ TarRunning
    /\ remote.todo # <<>>
    /\ \E k \in 1..Min(MaxFrameLen, Len(remote.todo)) :
          /\ chans' = SetCur([Cur EXCEPT
                                !.inQ = Append(@, DataFrame("stdout", SubSeq(remote.todo, 1, k)))])
          /\ remote' = [remote EXCEPT
                          !.frames = Append(@, DataFrame("stdout", SubSeq(remote.todo, 1, k))),
                          !.todo = SubSeq(@, k + 1, Len(@))]
    /\ UNCHANGED <<pc, op, result, excValue, caught, podExists, remoteFile,
                   srcFile, outFile, stderrList, tarBuf, tarPos, progress>>
    /\ UNCHANGED fsVars
    /\ UNCHANGED deployVars
    /\ UNCHANGED printed
    /\ UNCHANGED reported

\* tar exits: status 0 after the whole archive, or a message on stderr and
\* status 2 when the file is missing
RemoteTarExit ==
    /\ TarRunning
    /\ remote.todo = <<>>
    /\ IF remoteFile.ok
       THEN /\ chans' = SetCur([Cur EXCEPT
                                  !.inQ = @ \o <<DataFrame("error", <<0>>), CloseFrame>>])
            /\ remote' = [remote EXCEPT !.phase = "exited", !.status = 0]
       ELSE /\ chans' = SetCur([Cur EXCEPT
                                  !.inQ = @ \o <<DataFrame("stderr", <<97>>),
                                                 DataFrame("error", <<2>>), CloseFrame>>])
            /\ remote' = [remote EXCEPT !.phase = "exited", !.status = 2,
                                        !.frames = Append(@, DataFrame("stderr", <<97>>))]
    /\ UNCHANGED <<pc, op, result, excValue, caught, podExists, remoteFile,
                   srcFile, outFile, stderrList, tarBuf, tarPos, progress>>
    /\ UNCHANGED fsVars
    /\ UNCHANGED deployVars
    /\ UNCHANGED printed
    /\ UNCHANGED reported

\* tar fails before the archive is complete (the file cannot be read to its
\* end, the process is killed): a message on stderr, status 2, the close frame
RemoteTarAbort ==
    /\ TarRunning
    /\ remote.todo # <<>>
    /\ chans' = SetCur([Cur EXCEPT
                          !.inQ = @ \o <<DataFrame("stderr", <<97>>),
                                         DataFrame("error", <<2>>), CloseFrame>>])
    /\ remote' = [remote EXCEPT !.phase = "exited", !.status = 2,
                                !.frames = Append(@, DataFrame("stderr", <<97>>))]
    /\ UNCHANGED <<pc, op, result, excValue, caught, podExists, remoteFile,
                   srcFile, outFile, stderrList, tarBuf, tarPos, progress>>
    /\ UNCHANGED fsVars
    /\ UNCHANGED deployVars
    /\ UNCHANGED printed
    /\ UNCHANGED reported

\* the remote extracting tar of an upload ends while the client still has
\* bytes to send (killed, disk full): status 2 and the close frame are sent and
\* nothing is extracted.  The client's _stream_to_pod never calls update(), so
\* the frames stay on the socket and is_open() keeps answering True.
ExtractRunning ==
    /\ chans # <<>>
    /\ Cur.cmd = "tar_x"
    /\ Cur.connected
    /\ remote.phase = "running"

RemoteExtractAbort ==
    /\ ExtractRunning
    /\ pc = "up_tar" \/ (pc = "up_loop" /\ NextChunk # <<>>)
    /\ chans' = SetCur([Cur EXCEPT
                          !.inQ = @ \o <<DataFrame("error", <<2>>), CloseFrame>>])
    /\ remote' = [remote EXCEPT !.phase = "exited", !.status = 2]
    /\ UNCHANGED <<pc, op, result, excValue, caught, podExists, remoteFile,
                   srcFile, outFile, stderrList, tarBuf, tarPos, progress>>
    /\ UNCHANGED fsVars
    /\ UNCHANGED deployVars
    /\ UNCHANGED printed
    /\ UNCHANGED reported

\* the pod is deleted while no exec session of this client runs in it
PodDeleted ==
    /\ podExists
    /\ pc \in {"up_open", "dl_open", "dl_mkdir"}
    /\ podExists' = FALSE
    /\ UNCHANGED <<pc, op, result, excValue, caught, chans, remote, remoteFile,
                   srcFile, outFile, stderrList, tarBuf, tarPos, progress>>
    /\ UNCHANGED fsVars
    /\ UNCHANGED deployVars
    /\ UNCHANGED printed
    /\ UNCHANGED reported

----------------------------------------------------------------------------

Next ==
    \/ Start
    \/ Exit
    \/ ExecOpen
    \/ ExecIsOpen
    \/ ExecPeekStdout
    \/ ExecPeekStderr
    \/ ExecPollFault
    \/ ExecClose
    \/ ExecReturnCode
    \/ RemoteWrite
    \/ RemoteExit
    \/ UploadOpen
    \/ CreateTarBuffer
    \/ StreamToPodStep
    \/ StreamToPodWriteFault
    \/ StreamToPodClose
    \/ CreateLocalDirectory
    \/ DownloadOpen
    \/ StreamFromPodIsOpen
    \/ StreamFromPodUpdate
    \/ StreamFromPodStdout
    \/ StreamFromPodStderr
    \/ StreamFromPodFault
    \/ StreamFromPodClose
    \/ ExtractTarToDestination
    \/ RemoteTarWrite
    \/ RemoteTarExit
    \/ RemoteTarAbort
    \/ RemoteExtractAbort
    \/ PodDeleted

Spec == Init /\ [][Next]_vars

----------------------------------------------------------------------------
(* _stream_to_pod on its own, called with any buffer on a fresh channel *)

\* most bytes of a buffer handed to _stream_to_pod
MaxArchiveLen == 5

InitStream ==
    /\ pc = "up_loop"
    /\ op = "upload"
    /\ result = "none"
    /\ excValue = <<>>
    /\ caught = "none"
    /\ podExists = TRUE
    /\ chans = <<NewChannel("tar_x")>>
    /\ remote = [IdleRemote EXCEPT !.phase = "running"]
    /\ remoteFile = NoFile
    /\ srcFile = NoFile
    /\ outFile = NoFile
    /\ stderrList = <<>>
    /\ tarBuf \in SeqsUpTo(FileBytes, MaxArchiveLen)
    /\ tarPos = 0
    /\ progress = 0
    /\ remoteDir = TRUE
    /\ localDir = FALSE
    /\ dirExisted = FALSE
    /\ docs = <<>>
    /\ docIdx = 0
    /\ cluster = {}
    /\ clusterBefore = {}
    /\ lastStatus = 0
    /\ printed = <<>>
    /\ reported = "none"

NextStream ==
    \/ StreamToPodStep
    \/ StreamToPodWriteFault
    \/ StreamToPodClose
    \/ RemoteExtractAbort

SpecStream == InitStream /\ [][NextStream]_vars

----------------------------------------------------------------------------
(* One operation under fair scheduling: the client process keeps running    *)
(* its next statement, and the remote process goes on to its end (the       *)
(* assumption that the remote command terminates).  Socket faults and the   *)
(* deletion of the pod may happen, and are never bound to.                  *)

\* the statements of the client, without the faults of its environment
ClientStep ==
    \/ ExecOpen
    \/ ExecIsOpen
    \/ ExecPeekStdout
    \/ ExecPeekStderr
    \/ ExecClose
    \/ ExecReturnCode
    \/ UploadOpen
    \/ CreateTarBuffer
    \/ StreamToPodStep
    \/ StreamToPodClose
    \/ CreateLocalDirectory
    \/ DownloadOpen
    \/ StreamFromPodIsOpen
    \/ StreamFromPodUpdate
    \/ StreamFromPodStdout
    \/ StreamFromPodStderr
    \/ StreamFromPodClose
    \/ ExtractTarToDestination

\* the remote tar's steps
RemoteTarStep == RemoteTarWrite \/ RemoteTarExit \/ RemoteTarAbort

Fairness ==
    /\ WF_vars(ClientStep)
    /\ WF_vars(RemoteExit)
    /\ WF_vars(RemoteTarStep)

\* one operation at its entry, in each file system state that matters to it:
\* the source file for an upload, the remote file for a download; the
\* destination directory is still to be made
InitLive ==
    /\ op \in {"exec", "upload", "download"}
    /\ pc = Entry(op)
    /\ result = "none"
    /\ excValue = <<>>
    /\ caught = "none"
    /\ podExists = TRUE
    /\ chans = <<>>
    /\ remote = IdleRemote
    /\ srcFile \in IF op = "upload" THEN {File(c) : c \in Contents} \cup {NoFile}
                                     ELSE {NoFile}
    /\ remoteFile \in IF op = "download" THEN {File(c) : c \in Contents} \cup {NoFile}
                                          ELSE {NoFile}
    /\ outFile = NoFile
    /\ stderrList = <<>>
    /\ tarBuf = <<>>
    /\ tarPos = 0
    /\ progress = 0
    /\ remoteDir = (op = "download")
    /\ localDir = FALSE
    /\ dirExisted = FALSE
    /\ docs = <<>>
    /\ docIdx = 0
    /\ cluster = {}
    /\ clusterBefore = {}
    /\ lastStatus = 0
    /\ printed = <<>>
    /\ reported = "none"

\* the steps of the operation and of its environment
NextLive ==
    \/ ClientStep
    \/ ExecPollFault
    \/ StreamToPodWriteFault
    \/ StreamFromPodFault
    \/ RemoteWrite
    \/ RemoteExit
    \/ RemoteTarStep
    \/ RemoteExtractAbort
    \/ PodDeleted

SpecLive == InitLive /\ [][NextLive]_vars /\ Fairness

----------------------------------------------------------------------------
(* K8sManager.execute_operation, K8sCommandExecutor.execute_command and the *)
(* operations deploy and delete: K8sFunctionManager.deploy_from_yaml /      *)
(* delete_from_yaml over the generator Helpers.convert_yaml_to_kube_objects *)
(*                                                                          *)
(* The environment: the cluster API answers a create with 201, 409 when the *)
(* resource exists, 422 when the body is invalid; a delete with 200 or 404  *)
(* when the resource is absent; any call may fail with 500.                 *)

\* longest definitions file
MaxDocs == 2

\* Helpers.supported_kube_objects
SupportedKubeObjects == {"Pod", "Service", "Deployment"}

\* the 'kind' of a document: a supported one, another one, or no 'kind' key
Kinds == SupportedKubeObjects \cup {"Job", "none"}

\* a document: its kind, metadata.name, metadata.namespace ("none": not given)
\* and whether the API server accepts its body
Documents == [kind : Kinds, name : {"web"}, ns : {"none", "prod"}, valid : BOOLEAN]

\* K8sManager._register_commands
RegisteredOperations == {"deploy", "delete", "exec", "list", "download", "upload",
                         "list-pods-for-all-namespaces", "health-check"}

\* the classes derived from CustomException
CustomExceptions == {"FailedToLoadYamlFile", "InvalidFileExtension",
                     "UnsupportedKubeOperationProvided", "FailedToExecuteCommand",
                     "KubernetesResourceWasNotFound", "InvalidDefinitionFile",
                     "ResourceAlreadyExist", "KubernetesObjectIsNotSupportedYet",
                     "FailedToCreateLocalDir"}

\* what a raise statement raises: CustomException.__init__(self, message, value)
\* takes two arguments, and a call with another number of them is a TypeError
Construct(exc, nargs) ==
    IF exc \in CustomExceptions /\ nargs # 2 THEN "TypeError" ELSE exc

\* an exception leaving a generator body: StopIteration becomes RuntimeError
GeneratorRaise(exc) == IF exc = "StopIteration" THEN "RuntimeError" ELSE exc

\* KubeObject.namespace: metadata.namespace, or "default"
Namespace(d) == IF d.ns = "none" THEN "default" ELSE d.ns

\* KubeObject.name: metadata.name
Name(d) == d.name

\* the resource a document names
Key(d) == <<d.kind, Namespace(d), Name(d)>>

\* the truth value of a filter object: it defines neither __bool__ nor
\* __len__, so it is true whatever it would yield
FilterIsTruthy(f) == TRUE

\* Helpers.convert_dict_to_kube_object: the class of the object made, or the
\* exception raised
ConvertDictToKubeObject(d) ==
    LET repr_class == {k \in SupportedKubeObjects : k = d.kind}
    IN  IF FilterIsTruthy(repr_class)
        THEN IF repr_class # {}
             THEN CHOOSE k \in repr_class : TRUE
             ELSE "StopIteration"
        ELSE Construct("KubernetesObjectIsNotSupportedYet", 2)

\* the status the API server answers a create with
CreateStatus(d, fault) ==
    IF fault THEN 500
    ELSE IF ~d.valid THEN 422
    ELSE IF Key(d) \in cluster THEN 409
    ELSE 201

\* the status the API server answers a delete with
DeleteStatus(d, fault) ==
    IF fault THEN 500
    ELSE IF Key(d) \notin cluster THEN 404
    ELSE 200

\* the API client raises ApiException for every status outside 2xx
ApiRaises(status) == status < 200 \/ status > 299

\* a create handler that knows about conflicts only
CreateErrorConflictOnly(status) ==
    IF status = 409 THEN Construct("ResourceAlreadyExist", 2)
    ELSE "ApiException"

\* a create handler that re-raises every API failure as it is
CreateErrorUnmapped(status) == "ApiException"

\* Pod.create: except client.ApiException as ex
PodCreateError(status) ==
    IF status = 409 THEN Construct("ResourceAlreadyExist", 2)
    ELSE IF status = 422 THEN Construct("InvalidDefinitionFile", 2)
    ELSE "ApiException"

\* Service.create: except client.ApiException as ex
ServiceCreateError(status) ==
    IF status = 409 THEN Construct("ResourceAlreadyExist", 2)
    ELSE IF status = 422 THEN Construct("InvalidDefinitionFile", 2)
    ELSE "ApiException"

\* Deployment.create: except client.ApiException as ex
DeploymentCreateError(status) ==
    IF status = 409 THEN Construct("ResourceAlreadyExist", 2)
    ELSE IF status = 422 THEN Construct("InvalidDefinitionFile", 2)
    ELSE "ApiException"

\* Pod.delete: except client.ApiException as ex
PodDeleteError(status) ==
    IF status = 404 THEN Construct("KubernetesResourceWasNotFound", 2)
    ELSE "ApiException"

\* Service.delete: except client.ApiException as ex
ServiceDeleteError(status) ==
    IF status = 404 THEN Construct("KubernetesResourceWasNotFound", 2)
    ELSE "ApiException"

\* Deployment.delete: except client.ApiException as ex
DeploymentDeleteError(status) ==
    IF status = 404 THEN Construct("KubernetesResourceWasNotFound", 2)
    ELSE "ApiException"

\* kube_obj_instance.create() of the class made from the document
CreateError(kind, status) ==
    CASE kind = "Pod" -> PodCreateError(status)
      [] kind = "Service" -> ServiceCreateError(status)
      [] kind = "Deployment" -> DeploymentCreateError(status)

\* kube_obj_instance.delete() of the class made from the document
DeleteError(kind, status) ==
    CASE kind = "Pod" -> PodDeleteError(status)
      [] kind = "Service" -> ServiceDeleteError(status)
      [] kind = "Deployment" -> DeploymentDeleteError(status)

\* K8sManager.execute_operation(operation): execute_command runs the command
\* registered under the name, or raises for a name that is not registered;
\* execute_operation catches UnsupportedKubeOperationProvided and nothing else
ExecuteOperation ==
    /\ pc = "idle"
    /\ \E name \in {"deploy", "delete", "restart"} :
          /\ op' = name
          /\ IF name \in RegisteredOperations
             THEN /\ pc' = Entry(name)
                  /\ UNCHANGED <<result, excValue, caught>>
             ELSE LET e == Construct("UnsupportedKubeOperationProvided", 1)
                  IN  IF e = "UnsupportedKubeOperationProvided"
                      THEN Swallow(e)
                      ELSE /\ Raise(e, <<>>)
                           /\ UNCHANGED caught
    /\ UNCHANGED <<podExists, chans, remote, remoteFile, srcFile, outFile,
                   stderrList, tarBuf, tarPos, progress>>
    /\ UNCHANGED fsVars
    /\ clusterBefore' = cluster
    /\ UNCHANGED <<docs, docIdx, cluster, lastStatus>>
    /\ UNCHANGED printed
    /\ UNCHANGED reported

\* the generator's first step: yam_definitions = Helpers.load_yaml(yaml_file)
LoadYaml ==
    /\ pc = "dp_load"
    /\ \E e \in {"none", "InvalidFileExtension", "FileNotFoundError",
                  "FailedToLoadYamlFile"} :
          IF e = "none"
          THEN /\ pc' = "dp_next"
               /\ UNCHANGED <<result, excValue>>
          ELSE Raise(GeneratorRaise(Construct(e, 2)), <<>>)
    /\ UNCHANGED <<op, caught, podExists, chans, remote, remoteFile, srcFile, outFile,
                   stderrList, tarBuf, tarPos, progress>>
    /\ UNCHANGED fsVars
    /\ UNCHANGED deployVars
    /\ UNCHANGED printed
    /\ UNCHANGED reported

\* the for loop asks the generator for the next object: the generator converts
\* the next document and yields it, or is exhausted and the operation returns
ConvertNext ==
    /\ pc = "dp_next"
    /\ lastStatus' = 0
    /\ IF docIdx = Len(docs)
       THEN /\ Return
            /\ UNCHANGED docIdx
       ELSE /\ docIdx' = docIdx + 1
            /\ LET r == ConvertDictToKubeObject(docs[docIdx + 1])
               IN  IF r \in SupportedKubeObjects
                   THEN /\ pc' = "dp_apply"
                        /\ UNCHANGED <<result, excValue>>
                   ELSE Raise(GeneratorRaise(r), <<>>)
    /\ UNCHANGED <<op, caught, podExists, chans, remote, remoteFile, srcFile, outFile,
                   stderrList, tarBuf, tarPos, progress>>
    /\ UNCHANGED fsVars
    /\ UNCHANGED <<docs, cluster, clusterBefore>>
    /\ UNCHANGED printed
    /\ UNCHANGED reported

\* create() that undoes the earlier documents of the file when it fails
KubeObjectCreateRollingBack ==
    /\ pc = "dp_apply"
    /\ op = "deploy"
    /\ \E fault \in BOOLEAN :
          LET d == docs[docIdx]
              status == CreateStatus(d, fault)
          IN  /\ lastStatus' = status
              /\ IF ApiRaises(status)
                 THEN /\ Raise(CreateError(d.kind, status), <<>>)
                      /\ cluster' = clusterBefore
                 ELSE /\ cluster' = cluster \cup {Key(d)}
                      /\ pc' = "dp_next"
                      /\ UNCHANGED <<result, excValue>>
    /\ UNCHANGED <<op, caught, podExists, chans, remote, remoteFile, srcFile, outFile,
                   stderrList, tarBuf, tarPos, progress>>
    /\ UNCHANGED fsVars
    /\ UNCHANGED <<docs, docIdx, clusterBefore>>
    /\ UNCHANGED printed
    /\ UNCHANGED reported

\* deploy_from_yaml: kube_obj_instance.create()
KubeObjectCreate ==
    /\ pc = "dp_apply"
    /\ op = "deploy"
    /\ \E fault \in BOOLEAN :
          LET d == docs[docIdx]
              status == CreateStatus(d, fault)
          IN  /\ lastStatus' = status
              /\ IF ApiRaises(status)
                 THEN /\ Raise(CreateError(d.kind, status), <<>>)
                      /\ UNCHANGED cluster
                 ELSE /\ cluster' = cluster \cup {Key(d)}
                      /\ pc' = "dp_next"
                      /\ UNCHANGED <<result, excValue>>
    /\ UNCHANGED <<op, caught, podExists, chans, remote, remoteFile, srcFile, outFile,
                   stderrList, tarBuf, tarPos, progress>>
    /\ UNCHANGED fsVars
    /\ UNCHANGED <<docs, docIdx, clusterBefore>>
    /\ UNCHANGED printed
    /\ UNCHANGED reported

\* delete_from_yaml: kube_obj_instance.delete()
KubeObjectDelete ==
    /\ pc = "dp_apply"
    /\ op = "delete"
    /\ \E fault \in BOOLEAN :
          LET d == docs[docIdx]
              status == DeleteStatus(d, fault)
          IN  /\ lastStatus' = status
              /\ IF ApiRaises(status)
                 THEN /\ Raise(DeleteError(d.kind, status), <<>>)
                      /\ UNCHANGED cluster
                 ELSE /\ cluster' = cluster \ {Key(d)}
                      /\ pc' = "dp_next"
                      /\ UNCHANGED <<result, excValue>>
    /\ UNCHANGED <<op, caught, podExists, chans, remote, remoteFile, srcFile, outFile,
                   stderrList, tarBuf, tarPos, progress>>
    /\ UNCHANGED fsVars
    /\ UNCHANGED <<docs, docIdx, clusterBefore>>
    /\ UNCHANGED printed
    /\ UNCHANGED reported

\* a definitions file of up to MaxDocs documents and an empty cluster
InitDeploy ==
    /\ pc = "idle"
    /\ op = "none"
    /\ result = "none"
    /\ excValue = <<>>
    /\ caught = "none"
    /\ podExists = TRUE
    /\ chans = <<>>
    /\ remote = IdleRemote
    /\ remoteFile = NoFile
    /\ srcFile = NoFile
    /\ outFile = NoFile
    /\ stderrList = <<>>
    /\ tarBuf = <<>>
    /\ tarPos = 0
    /\ progress = 0
    /\ remoteDir = FALSE
    /\ localDir = FALSE
    /\ dirExisted = FALSE
    /\ docs \in SeqsUpTo(Documents, MaxDocs)
    /\ docIdx = 0
    /\ cluster = {}
    /\ clusterBefore = {}
    /\ lastStatus = 0
    /\ printed = <<>>
    /\ reported = "none"

NextDeploy ==
    \/ ExecuteOperation
    \/ LoadYaml
    \/ ConvertNext
    \/ KubeObjectCreate
    \/ KubeObjectDelete
    \/ Exit

SpecDeploy == InitDeploy /\ [][NextDeploy]_vars

----------------------------------------------------------------------------
(* Properties *)

Shell == {"sh", "mkdir"}
Transfer == {"tar_x", "tar_c"}

\* exec_bash ran its loop to the end and closed the channel
ExecCompleted ==
    /\ pc = "done"
    /\ chans # <<>>
    /\ Cur.cmd \in Shell
    /\ Cur.closeCalls > 0

\* C1: exit-status mapping of exec_bash.  A run that raised
\* FailedToExecuteCommand had a non-zero remote exit status; a run that
\* returned normally (to the CLI, or to copy_file_to_pod which goes on to the
\* transfer) had exit status 0; and a run that came to the end of its loop
\* raises FailedToExecuteCommand exactly when the status is not 0.
ExitStatusMapping ==
    /\ result = "FailedToExecuteCommand" => (remote.phase = "exited" /\ remote.status # 0)
    /\ (pc = "done" /\ op = "exec" /\ result = "returned") =>
           (remote.phase = "exited" /\ remote.status = 0)
    /\ pc = "up_open" => (remote.phase = "exited" /\ remote.status = 0)
    /\ ExecCompleted => (result = "FailedToExecuteCommand" <=> remote.status # 0)
    /\ (ExecCompleted /\ op = "exec" /\ remote.status = 0) => result = "returned"

\* C1 witness: a command that exited with status 1 ended in FailedToExecuteCommand
ExitStatusMappingWitness ==
    /\ pc = "done"
    /\ op = "exec"
    /\ remote.status = 1
    /\ result = "FailedToExecuteCommand"

\* C2 (as claimed): the value of FailedToExecuteCommand is the text the remote
\* process wrote to stderr, nothing missing and nothing added.
StderrTextIsRemoteStderr ==
    (pc = "done" /\ result = "FailedToExecuteCommand") =>
        excValue = WroteText(remote.frames, "stderr")

\* C3: upload ordering.  What has been passed to write_stdin is always the
\* part of the buffer read so far, in order; once close() has been called it
\* is the whole buffer; close() is called at most once, and once when
\* _stream_to_pod returns.
UploadOrdering ==
    /\ \A i \in DOMAIN chans :
          chans[i].cmd = "tar_x" =>
             /\ chans[i].stdin = SubSeq(tarBuf, 1, tarPos)
             /\ chans[i].closeCalls > 0 => chans[i].stdin = tarBuf
             /\ chans[i].closeCalls <= 1
    /\ (pc = "done" /\ op = "upload" /\ result = "returned" /\ caught = "none") =>
           (Cur.cmd = "tar_x" /\ Cur.closeCalls = 1 /\ Cur.stdin = tarBuf)

\* C3 witness: a buffer of more than one chunk was sent whole and the channel closed
UploadOrderingWitness ==
    /\ pc = "done"
    /\ caught = "none"
    /\ Len(tarBuf) > ChunkSize
    /\ Cur.closeCalls = 1
    /\ Cur.stdin = tarBuf

\* the stdout frames still waiting in the socket
PendingStdout(c) == {i \in DOMAIN c.inQ : c.inQ[i].ch = "stdout"}

\* C4: download ordering.  When extraction begins the channel is closed, no
\* stdout data waits in the socket or in the channel's buffer, the remote tar
\* has terminated, and the local buffer holds every stdout frame the remote
\* wrote, in order (as the text mode re-encodes it).
DownloadDrainedBeforeExtract ==
    pc = "dl_extract" =>
        /\ ~Cur.connected
        /\ Cur.closeCalls >= 1
        /\ Cur.buf["stdout"] = <<>>
        /\ PendingStdout(Cur) = {}
        /\ remote.phase = "exited"
        /\ tarBuf = Utf8Encode(WroteText(remote.frames, "stdout"))

\* C4 witness: extraction begins after an archive that came in several frames
DownloadDrainedWitness ==
    /\ pc = "dl_extract"
    /\ Len(remote.frames) >= 2
    /\ tarBuf # <<>>

\* C5 (as claimed): when an operation ends, every channel exec_bash opened
\* has been closed, whatever the exit path; and a failed open raises
\* KubernetesResourceWasNotFound with no channel opened.
ExecClosesOnEveryPath ==
    /\ pc = "done" =>
          \A i \in DOMAIN chans :
             chans[i].cmd \in Shell => (chans[i].closeCalls >= 1 /\ ~chans[i].connected)
    /\ (pc = "done" /\ result = "KubernetesResourceWasNotFound") => chans = <<>>

\* C6 (as claimed): when an operation ends, every channel a file transfer
\* opened has been closed by it.
TransferClosesItsChannel ==
    pc = "done" =>
        \A i \in DOMAIN chans :
           chans[i].cmd \in Transfer => (chans[i].closeCalls >= 1 /\ ~chans[i].connected)

\* C7: the download channel is never closed twice, and it has been closed
\* exactly once when extraction begins and when the download ends after an
\* extraction that succeeded or failed.
DownloadClosesOnce ==
    /\ \A i \in DOMAIN chans : chans[i].cmd = "tar_c" => chans[i].closeCalls <= 1
    /\ pc = "dl_extract" => Cur.closeCalls = 1
    /\ (pc = "done" /\ op = "download" /\ result \in {"returned", "ReadError"}) =>
           (Cur.cmd = "tar_c" /\ Cur.closeCalls = 1)

\* C7 witness: extraction failed and the channel had been closed once
DownloadClosesOnceWitness ==
    /\ pc = "done"
    /\ op = "download"
    /\ result = "ReadError"
    /\ Cur.closeCalls = 1

\* C8 (as claimed): an open against a missing target ends in
\* KubernetesResourceWasNotFound in every operation; none surfaces the raw
\* ApiException.
MissingTargetIsNotFound ==
    (pc = "done" /\ result \in {"ApiException", "KubernetesResourceWasNotFound"}) =>
        result = "KubernetesResourceWasNotFound"

\* C9 (as claimed): when write_stdin raises during upload, copy_file_to_pod
\* does not return normally.
WriteFaultPropagates ==
    (pc = "done" /\ op = "upload" /\ caught = "WebSocketException") =>
        result # "returned"

\* C10 (as claimed): a download that follows the upload of the source file
\* and runs to its end returns with a local file whose content is the
\* content of the source file.
RoundTrip ==
    (/\ pc = "done"
     /\ op = "download"
     /\ srcFile.ok
     /\ remoteFile = srcFile
     /\ remote.status = 0
     /\ result \notin {"ApiException", "FailedToCreateLocalDir", "WebSocketException"}) =>
        (result = "returned" /\ outFile = srcFile)

----------------------------------------------------------------------------
\* a channel of a transfer command is among the channels opened
TransferOpened == \E i \in DOMAIN chans : chans[i].cmd \in Transfer

\* C11: in both directions the destination directory is ensured before the
\* transfer channel is opened: a tar-extract channel exists only after the
\* remote mkdir ran to completion (its channel closed, the directory there), a
\* tar-create channel only after the local directory was created; when that
\* step failed (FailedToExecuteCommand or not-found for the remote one,
\* FailedToCreateLocalDir for the local one) no transfer channel was opened and
\* no byte was sent or received
DirectoryBeforeTransfer ==
    /\ \A i \in DOMAIN chans :
          /\ chans[i].cmd = "tar_x" =>
                /\ i = 2
                /\ chans[1].cmd = "mkdir"
                /\ ~chans[1].connected
                /\ chans[1].closeCalls = 1
                /\ remoteDir
          /\ chans[i].cmd = "tar_c" => localDir
    /\ ( op = "upload"
         /\ result \in {"FailedToExecuteCommand", "KubernetesResourceWasNotFound"} ) =>
          /\ ~TransferOpened
          /\ tarBuf = <<>>
          /\ progress = 0
    /\ result = "FailedToCreateLocalDir" =>
          /\ chans = <<>>
          /\ tarBuf = <<>>
          /\ progress = 0

\* an upload sent bytes on a tar-extract channel, after the remote mkdir
DirectoryBeforeTransferWitness ==
    /\ Len(chans) = 2
    /\ chans[2].cmd = "tar_x"
    /\ chans[2].stdin # <<>>
    /\ chans[1].cmd = "mkdir"
    /\ remoteDir

\* C16: ensuring a destination directory that already exists raises no error
\* and leaves the directory tree as it was, for the remote "mkdir -p" of
\* Pod.create_directory and for Helpers.create_directory: the second of two
\* calls in a row changes nothing
CreateDirectoryIdempotent ==
    /\ (op = "upload" /\ dirExisted) =>
          /\ remoteDir
          /\ result # "FailedToExecuteCommand"
    /\ (op = "download" /\ dirExisted) =>
          /\ localDir
          /\ result # "FailedToCreateLocalDir"

\* both calls ran on a directory that was there: the remote mkdir completed and
\* the upload went on, or the local one completed and the download went on
CreateDirectoryIdempotentWitness ==
    /\ dirExisted
    /\ op = "download"
    /\ localDir
    /\ TransferOpened

----------------------------------------------------------------------------
\* the document deploy or delete is at
CurDoc == docs[docIdx]

\* the API was called for the document in hand
ApiCalled == op \in {"deploy", "delete"} /\ docIdx > 0 /\ lastStatus # 0

\* C12: for each of Pod, Service and Deployment, create() maps the API's 409
\* to ResourceAlreadyExist and its 422 to InvalidDefinitionFile, delete() maps
\* 404 to KubernetesResourceWasNotFound, a successful call raises nothing and
\* the operation goes on, and any other API failure leaves as the original
\* ApiException
ApiErrorMapping ==
    ApiCalled =>
       /\ CurDoc.kind \in SupportedKubeObjects
       /\ ~ApiRaises(lastStatus) => (pc = "dp_next" /\ result = "none")
       /\ ApiRaises(lastStatus) => pc = "done"
       /\ (op = "deploy" /\ lastStatus = 409) => result = "ResourceAlreadyExist"
       /\ (op = "deploy" /\ lastStatus = 422) => result = "InvalidDefinitionFile"
       /\ (op = "delete" /\ lastStatus = 404) => result = "KubernetesResourceWasNotFound"
       /\ ( ApiRaises(lastStatus)
            /\ ~(op = "deploy" /\ lastStatus \in {409, 422})
            /\ ~(op = "delete" /\ lastStatus = 404) ) => result = "ApiException"

\* a Service with an invalid body was refused with 422
ApiErrorMappingWitness ==
    /\ ApiCalled
    /\ op = "deploy"
    /\ CurDoc.kind = "Service"
    /\ lastStatus = 422
    /\ result = "InvalidDefinitionFile"

\* a file of one Deployment whose resource is in the cluster
OneDeploymentPresent ==
    /\ Len(docs) = 1
    /\ docs[1].kind = "Deployment"
    /\ Key(docs[1]) \in cluster

\* C13: deploying a file of one Deployment (name and namespace from the body)
\* again, after a deploy that created it, ends in ResourceAlreadyExist on the
\* second call unless the API itself fails, and the resource the first call
\* created is still there
SecondDeployConflicts ==
    [][ ( /\ op = "deploy"
          /\ pc = "dp_apply"
          /\ OneDeploymentPresent
          /\ pc' # pc
          /\ lastStatus' # 500 ) =>
        ( /\ pc' = "done"
          /\ result' = "ResourceAlreadyExist"
          /\ Key(docs[1]) \in cluster' ) ]_vars

\* the second deploy of a Deployment in namespace prod ended in ResourceAlreadyExist
SecondDeployConflictsWitness ==
    /\ op = "deploy"
    /\ pc = "done"
    /\ OneDeploymentPresent
    /\ docs[1].ns = "prod"
    /\ Key(docs[1]) = <<"Deployment", "prod", "web">>
    /\ lastStatus = 409
    /\ result = "ResourceAlreadyExist"

\* C14: a document whose 'kind' is not supported, or is absent, is rejected
\* with KubernetesObjectIsNotSupportedYet, and deploy / delete end in that
\* typed error
UnsupportedKindIsTypedError ==
    ( /\ op \in {"deploy", "delete"}
      /\ pc = "done"
      /\ docIdx > 0
      /\ CurDoc.kind \notin SupportedKubeObjects ) =>
        result = "KubernetesObjectIsNotSupportedYet"

\* C15: an operation name that is not registered makes execute_command raise
\* UnsupportedKubeOperationProvided without running any command, and
\* execute_operation catches that error and returns normally
UnregisteredOperationIsReported ==
    (pc = "done" /\ op \notin RegisteredOperations) =>
       /\ caught = "UnsupportedKubeOperationProvided"
       /\ result = "returned"

----------------------------------------------------------------------------
\* the download drained its channel and went on to the extraction
ExtractionAttempted ==
    /\ op = "download"
    /\ pc = "done"
    /\ chans # <<>>
    /\ Cur.closeCalls >= 1

\* C17: when the bytes a download buffered are not a valid archive (nothing
\* at all, or an archive cut short because the remote tar failed), the
\* download does not return normally: the extraction raises the archive
\* reader's error, tarfile.ReadError, and no file is produced
ArchiveCorruptRaises ==
    /\ (op = "download" /\ pc = "done" /\ ~TarValid(tarBuf)) => result # "returned"
    /\ (ExtractionAttempted /\ ~TarValid(tarBuf)) =>
          /\ result = "ReadError"
          /\ outFile = NoFile

\* the remote tar failed part-way: a buffer that holds the beginning of an archive
ArchiveCorruptRaisesWitness ==
    /\ ExtractionAttempted
    /\ tarBuf # <<>>
    /\ ~TarValid(tarBuf)
    /\ remote.todo # <<>>
    /\ result = "ReadError"

----------------------------------------------------------------------------
\* the fragments of a list, one after the other
RECURSIVE Flatten(_)
Flatten(l) == IF l = <<>> THEN <<>> ELSE Head(l) \o Flatten(Tail(l))

\* the data frames the remote wrote that the channel has taken from the socket
ReceivedFrames ==
    LET pending == {i \in DOMAIN Cur.inQ : Cur.inQ[i].ch \in {"stdout", "stderr"}}
    IN  SubSeq(remote.frames, 1, Len(remote.frames) - Cardinality(pending))

\* exec_bash is in its loop, or left it, on a channel of a shell command
InExecBash ==
    /\ chans # <<>>
    /\ Cur.cmd \in Shell
    /\ pc \in {"ex_loop", "ex_out", "ex_err", "ex_close", "ex_rc", "done"}

\* C18: in exec_bash every stdout fragment is printed in the loop iteration
\* that reads it, while the channel is still being polled: after the stdout
\* step nothing that was received on stdout is left unprinted.  What is
\* printed is stdout text only: stderr fragments are kept in the list, reach
\* the caller only as the value of FailedToExecuteCommand, and are dropped
\* when the command exits with status 0
StdoutForwardedStderrHeld ==
    /\ InExecBash =>
          /\ Flatten(printed) \o Cur.buf["stdout"] = WroteText(ReceivedFrames, "stdout")
          /\ pc = "ex_err" => Cur.buf["stdout"] = <<>>
    /\ ExecCompleted => Flatten(printed) = WroteText(remote.frames, "stdout")
    /\ excValue # <<>> => result = "FailedToExecuteCommand"
    /\ (ExecCompleted /\ op = "exec" /\ remote.status = 0) =>
          /\ result = "returned"
          /\ excValue = <<>>

\* stdout was printed and stderr is held back while the command still runs
StdoutForwardedWitness ==
    /\ InExecBash
    /\ op = "exec"
    /\ pc = "ex_loop"
    /\ Cur.connected
    /\ remote.phase = "running"
    /\ printed # <<>>
    /\ stderrList # <<>>

----------------------------------------------------------------------------
\* the positions inside the three loops
ExecLoop == {"ex_loop", "ex_out", "ex_err"}
DownloadLoop == {"dl_loop", "dl_update", "dl_out", "dl_err"}
UploadLoop == {"up_loop"}

\* C19: termination.  The upload loop ends for every archive whatever the
\* remote does: it is left for the close, or by an exception.  The loops of
\* exec_bash and of _stream_from_pod are left normally only when the channel
\* was closed from the remote side, so a remote that never terminates keeps
\* them running; when the remote process does terminate they are always
\* left, by the loop's end or by an exception
LoopsTerminate ==
    /\ [](pc \in {"ex_close", "dl_close"} =>
            (~Cur.connected /\ Cur.closeCalls = 0 /\ remote.phase = "exited"))
    /\ ((pc \in UploadLoop) ~> (pc \in {"up_close", "done"}))
    /\ ((pc \in ExecLoop) ~> (pc \in {"ex_close", "done"}))
    /\ ((pc \in DownloadLoop) ~> (pc \in {"dl_close", "done"}))

\* the download loop ended after the remote tar wrote its archive and exited
LoopsTerminateWitness ==
    /\ pc = "dl_close"
    /\ remote.phase = "exited"
    /\ Len(remote.frames) > 1
    /\ ~Cur.connected

----------------------------------------------------------------------------
\* C20: the progress counter of a transfer starts at 0 and after every step
\* is the number of bytes transferred so far: the bytes passed to write_stdin
\* in an upload, the bytes written to the local archive buffer in a download;
\* nothing of it is left when the next operation starts
ProgressCountsBytes ==
    /\ pc = "idle" => progress = 0
    /\ (op = "upload" /\ pc \in {"up_loop", "up_close"}) => progress = Len(Cur.stdin)
    /\ (op = "download" /\ pc \in DownloadLoop \cup {"dl_close", "dl_extract"}) =>
          progress = Len(tarBuf)

\* the remote tar of the running upload ended while archive bytes were still
\* unsent (the only way an upload's remote gets status 2)
ExtractEndedEarly ==
    /\ op = "upload"
    /\ chans # <<>>
    /\ Cur.cmd = "tar_x"
    /\ remote.status = 2

\* copy_file_to_pod has returned to its caller without raising
UploadReturned ==
    /\ op = "upload"
    /\ pc = "done"
    /\ result = "returned"
    /\ chans # <<>>
    /\ Cur.cmd = "tar_x"

UploadCompleteAfterRemoteEnd ==
    /\ UploadReturned
    /\ ExtractEndedEarly
    /\ Len(tarBuf) > ChunkSize
    /\ Cur.stdin = tarBuf
    /\ reported = "Upload complete."

\* the number of documents of the file whose create()/delete() has returned
Applied ==
    IF pc = "dp_next" \/ (pc = "done" /\ result = "returned")
    THEN docIdx
    ELSE IF docIdx > 0 THEN docIdx - 1 ELSE 0

\* the cluster after the first k documents were applied to c, in file order
ApplyDocs(o, c, k) ==
    LET keys == {Key(docs[i]) : i \in 1..k}
    IN  IF o = "deploy" THEN c \cup keys ELSE c \ keys

\* the operation ended by an exception raised for a document of the file
StoppedAtDocument ==
    /\ op \in {"deploy", "delete"}
    /\ pc = "done"
    /\ result # "returned"
    /\ docIdx > 0

\* C22: deploy_from_yaml and delete_from_yaml take the documents in file
\* order, one at a time: at every moment the cluster is what it was at
\* dispatch with exactly the documents before the current one applied.  The
\* operation returns only after the last document; when it stops on an
\* exception the current document is the one that failed (its kind is not
\* supported, or its API call was answered with an error status), the
\* documents before it stay applied and nothing after it has been applied.
DocumentsInFileOrder ==
    op \in {"deploy", "delete"} =>
       /\ docIdx \in 0..Len(docs)
       /\ cluster = ApplyDocs(op, clusterBefore, Applied)
       /\ (pc = "done" /\ result = "returned") => docIdx = Len(docs)
       /\ pc = "dp_apply" => ConvertDictToKubeObject(CurDoc) \in SupportedKubeObjects
       /\ StoppedAtDocument =>
             IF lastStatus = 0
             THEN ConvertDictToKubeObject(CurDoc) \notin SupportedKubeObjects
             ELSE ApiRaises(lastStatus)

\* C22 witness: the first of two documents was created, the second failed,
\* and the first resource is still there
DocumentsInFileOrderWitness ==
    /\ op = "deploy"
    /\ StoppedAtDocument
    /\ docIdx = 2
    /\ Key(docs[1]) # Key(docs[2])
    /\ Key(docs[1]) \notin clusterBefore
    /\ Key(docs[1]) \in cluster
    /\ Key(docs[2]) \notin cluster

\* the channels of the running operation that close() has not been called on
Unclosed == {i \in DOMAIN chans : chans[i].closeCalls = 0}

\* the channels of the running operation whose is_open() answers True
Connected == {i \in DOMAIN chans : chans[i].connected}

\* C23: an operation never holds two exec channels open.  At most one of the
\* channels it opened is connected and at most one has not been closed by it;
\* whenever a second channel exists the operation is the upload, the first
\* channel is the mkdir one, already closed by exec_bash, and the second is
\* the tar-extract one.
OneChannelOpen ==
    /\ Cardinality(Connected) <= 1
    /\ Cardinality(Unclosed) <= 1
    /\ Len(chans) <= 2
    /\ \A i \in DOMAIN chans :
          i < Len(chans) =>
             /\ op = "upload"
             /\ chans[i].cmd = "mkdir"
             /\ chans[i + 1].cmd = "tar_x"
             /\ i \notin Connected
             /\ i \notin Unclosed

\* C23 witness: the tar-extract channel has just been opened and is the only
\* open one, the mkdir channel before it having been closed
OneChannelOpenWitness ==
    /\ pc = "up_tar"
    /\ Len(chans) = 2
    /\ Connected = {2}
    /\ Unclosed = {2}
    /\ chans[1].closeCalls = 1

====
